---- MODULE Spec2Model ----
(***************************************************************************)
(* Delayed Maids Dashboard (src/app.py): the delay classifier.             *)
(*                                                                         *)
(* Server state : task_thresholds, current_data (the working table).       *)
(* Browser state: contents (the dcc.Upload value, kept between callbacks), *)
(*                filters (the four dropdown values), table (the data of   *)
(*                the DataTable), and the last outputs of update_dashboard.*)
(*                                                                         *)
(* user_edited tells which callback wrote the table data last: FALSE for   *)
(* update_dashboard, TRUE for update_table_data.                           *)
(* now is the clock that datetime.now() reads, in seconds; download is the *)
(* file that the last event sent to the browser, if it sent one.           *)
(*                                                                         *)
(* The Folder Distributor has no code under src/; its three variables and  *)
(* its operations follow sections 3 and 4.2 of the specification.          *)
(*                                                                         *)
(* Strings that the code strips or sorts are sequences of character codes. *)
(* A missing number (NaN in pandas, None in the browser) is NaN.           *)
(***************************************************************************)
EXTENDS Integers, Sequences, FiniteSets, TLC

VARIABLES task_thresholds, current_data, contents, filters, table, stats, outcome,
          user_edited, options, now, download,
          distribution_record, decision_log, dist_status

\* the Folder Distributor: the Distribution Record, the Review Decision log
\* and what the last operation reported to its caller
distVars == <<distribution_record, decision_log, dist_status>>

vars == <<task_thresholds, current_data, contents, filters, table, stats, outcome,
          user_edited, options, now, download, distVars>>

(* ---------------------------- bounds ---------------------------------- *)
MaxRows == 2          \* rows of a sheet in Spec, SpecDashboard and SpecClassify
MaxCells == 5         \* rows of a sheet in SpecNormalize
MaxClock == 1         \* seconds that pass in SpecSession
MaxItems == 3         \* work items of one distribution run
MaxPairs == 3         \* pairs in the Distribution Record
MaxLog == 1           \* entries in the Review Decision log

(* ------------------------ values and strings -------------------------- *)
NaN == -1000          \* pd.to_numeric(errors='coerce') result for a bad cell; None in JSON
SP == 32              \* ' '
TaskA == <<65>>       \* a task with a default threshold ('Apply for entry Visa')
TaskB == <<66>>       \* a second task with a default threshold
TaskU == <<85>>       \* a task that is not a key of TASK_THRESHOLDS
NaCell == <<0, 0>>    \* a missing task cell (NaN read by pandas)
None == <<0>>         \* Python None in the Task column
DEFAULT_THRESHOLD == 24

TASK_THRESHOLDS == (TaskA :> 24) @@ (TaskB :> 48)

\* a > b on floats: False as soon as one side is NaN
GT(a, b) == a # NaN /\ b # NaN /\ a > b

\* a * b on floats
Mul(a, b) == IF a = NaN \/ b = NaN THEN NaN ELSE a * b

\* dict.get(key, default)
Get(d, k, default) == IF k \in DOMAIN d THEN d[k] ELSE default

\* Series.map(dict): NaN for a value that is not a key
MapThreshold(d, k) == IF k \in DOMAIN d THEN d[k] ELSE NaN

RECURSIVE LStrip(_)
LStrip(s) == IF s # <<>> /\ Head(s) = SP THEN LStrip(Tail(s)) ELSE s

RECURSIVE RStrip(_)
RStrip(s) == IF s # <<>> /\ s[Len(s)] = SP THEN RStrip(SubSeq(s, 1, Len(s) - 1)) ELSE s

\* str.strip()
Strip(s) == RStrip(LStrip(s))

\* pd.notna(task) and str(task).strip()
NonBlank(cell) == cell # NaCell /\ Strip(cell) # <<>>

\* the loop without the update of current_task
RECURSIVE FillFromNoCarry(_, _)
FillFromNoCarry(cells, current_task) ==
    IF cells = <<>> THEN <<>>
    ELSE <<IF NonBlank(Head(cells)) THEN Strip(Head(cells)) ELSE current_task>>
         \o FillFromNoCarry(Tail(cells), current_task)

\* the forward fill loop of process_data
RECURSIVE FillFrom(_, _)
FillFrom(cells, current_task) ==
    IF cells = <<>> THEN <<>>
    ELSE LET cur == IF NonBlank(Head(cells)) THEN Strip(Head(cells)) ELSE current_task
         IN  <<cur>> \o FillFrom(Tail(cells), cur)

NormalizeTasks(cells) == FillFrom(cells, None)

(* --------------------------- classification --------------------------- *)
\* calculate_priority with >= for >
calculate_priority_ge(row, thresholds) ==
    LET delay == row.Delay
        threshold == Get(thresholds, row.Task, DEFAULT_THRESHOLD)
    IN  IF delay # NaN /\ delay >= threshold * 2 THEN "High"
        ELSE IF delay # NaN /\ delay >= threshold THEN "Medium"
        ELSE "Low"

\* DelayedMaidsApp.calculate_priority; float(NaN) does not raise, and
\* task_thresholds.get(None, 24) is 24
calculate_priority(row, thresholds) ==
    LET delay == row.Delay
        threshold == Get(thresholds, row.Task, DEFAULT_THRESHOLD)
    IN  IF GT(delay, threshold * 2) THEN "High"
        ELSE IF GT(delay, threshold) THEN "Medium"
        ELSE "Low"

\* the lambda of df['Is Delayed'] in process_data
is_delayed(row, thresholds) ==
    IF row.Delay # NaN /\ row.Task # None
    THEN GT(row.Delay, Get(thresholds, row.Task, DEFAULT_THRESHOLD))
    ELSE FALSE

(* ------------------------------ uploads ------------------------------- *)
Unparseable == <<110, 47, 97>>      \* a delay cell holding 'n/a'

IsDigit(c) == c >= 48 /\ c <= 57

RECURSIVE DigitsValue(_)
DigitsValue(s) == IF s = <<>> THEN 0 ELSE DigitsValue(SubSeq(s, 1, Len(s) - 1)) * 10 + (s[Len(s)] - 48)

\* to_numeric followed by fillna(0)
ToNumericZero(cell) ==
    IF cell # <<>> /\ \A i \in 1..Len(cell) : IsDigit(cell[i]) THEN DigitsValue(cell) ELSE 0

\* pd.to_numeric(errors='coerce') on one cell: the number written in the cell,
\* NaN for an empty cell or a cell that is no number
ToNumeric(cell) ==
    IF cell # <<>> /\ \A i \in 1..Len(cell) : IsDigit(cell[i]) THEN DigitsValue(cell) ELSE NaN

\* DelayedMaidsApp.process_data: the rows of the sheet, classified. Without a
\* Task column df['Task'] raises, without a Real Delay (hours) column the
\* lambda of 'Is Delayed' raises on the first row; the except clause then
\* returns an empty DataFrame.
process_data(file, thresholds) ==
    IF ~file.hasTask \/ ~file.hasDelay THEN <<>> ELSE
    LET rows == file.rows
        tasks == NormalizeTasks([i \in 1..Len(rows) |-> rows[i].Task])
        base == [i \in 1..Len(rows) |->
                    [name |-> rows[i].name,
                     Task |-> tasks[i],
                     Delay |-> ToNumeric(rows[i].Delay),
                     Threshold |-> MapThreshold(thresholds, tasks[i]),
                     Assignee |-> IF file.hasAssignee THEN rows[i].Assignee ELSE "Unassigned",
                     Notes |-> "",
                     LastUpdated |-> now,
                     Nationality |-> rows[i].Nationality,
                     Status |-> rows[i].Status,
                     Type |-> rows[i].Type]]
    IN  [i \in 1..Len(rows) |->
            base[i] @@ [IsDelayed |-> is_delayed(base[i], thresholds),
                        Priority |-> calculate_priority(base[i], thresholds)]]

\* the other columns of row i of the uploaded sheets
Nat1 == <<78, 49>>
Nat2 == <<78, 50>>
Sta1 == <<83, 49>>
Sta2 == <<83, 50>>
Typ1 == <<84, 49>>
Typ2 == <<84, 50>>

SheetRow(i, cells) ==
    [name |-> i, Task |-> cells[1], Delay |-> cells[2],
     Nationality |-> IF i % 2 = 1 THEN Nat1 ELSE Nat2,
     Status |-> IF i = 2 THEN Sta1 ELSE Sta2,
     Type |-> IF i = 1 THEN Typ1 ELSE Typ2,
     Assignee |-> IF i = 1 THEN "Amin" ELSE "Unassigned"]

SeqsUpTo(S, n) == UNION {[1..k -> S] : k \in 0..n}

TaskCells == {NaCell, TaskB, TaskU}
DelayCells == {<<53, 48>>}                      \* '50'

Sheets == {[i \in 1..Len(c) |-> SheetRow(i, c[i])] : c \in SeqsUpTo(TaskCells \X DelayCells, MaxRows)}

\* an upload: readable is FALSE for a file that base64/pandas cannot read or
\* whose name has no supported extension
\* hasTask, hasDelay, hasAssignee: the sheet has the column
GoodFile(r, a) ==
    [readable |-> TRUE, hasTask |-> TRUE, hasDelay |-> TRUE, hasAssignee |-> a, rows |-> r]

OneRowSheets == {q \in Sheets : Len(q) = 1}

Files == {GoodFile(r, TRUE) : r \in Sheets}
         \cup {GoodFile(r, FALSE) : r \in OneRowSheets}
         \cup {[GoodFile(r, FALSE) EXCEPT !.hasTask = FALSE] : r \in OneRowSheets}
         \cup {[GoodFile(r, FALSE) EXCEPT !.hasDelay = FALSE] : r \in OneRowSheets}
         \cup {[GoodFile(<<>>, FALSE) EXCEPT !.readable = FALSE]}

(* ------------------------------ dashboard ----------------------------- *)
NoFilters == [task |-> {}, nat |-> {}, status |-> {}, type |-> {}]

FilterChoices == [task |-> {{}, {TaskB}}, nat |-> {{}, {Nat1}},
                  status |-> {{}, {Sta1}}, type |-> {{}, {Typ2}}]

\* FilterRows without the status filter
FilterRowsNoStatus(data, f) ==
    LET Keep(r) == /\ r.IsDelayed = TRUE
                   /\ (f.task = {} \/ r.Task \in f.task)
                   /\ (f.nat = {} \/ r.Nationality \in f.nat)
                   /\ (f.type = {} \/ r.Type \in f.type)
    IN  SelectSeq(data, Keep)

\* the filtered delayed subset of update_dashboard; an empty or absent filter
\* value is falsy and constrains nothing
FilterRows(data, f) ==
    LET Keep(r) == /\ r.IsDelayed = TRUE
                   /\ (f.task = {} \/ r.Task \in f.task)
                   /\ (f.nat = {} \/ r.Nationality \in f.nat)
                   /\ (f.status = {} \/ r.Status \in f.status)
                   /\ (f.type = {} \/ r.Type \in f.type)
    IN  SelectSeq(data, Keep)

\* total_delayed, critical_cases, unassigned_cases of update_dashboard
Statistics(filtered) ==
    LET rows == 1..Len(filtered)
    IN  [total |-> Len(filtered),
         critical |-> Cardinality({i \in rows :
                          GT(filtered[i].Delay, Mul(filtered[i].Threshold, 2))}),
         unassigned |-> Cardinality({i \in rows : filtered[i].Assignee = "Unassigned"})]

NoStatistics == [total |-> 0, critical |-> 0, unassigned |-> 0]

\* a < b on str
RECURSIVE LexLess(_, _)
LexLess(a, b) ==
    IF a = <<>> THEN b # <<>>
    ELSE IF b = <<>> THEN FALSE
    ELSE IF Head(a) # Head(b) THEN Head(a) < Head(b)
    ELSE LexLess(Tail(a), Tail(b))

\* sorted(values)
RECURSIVE Sorted(_)
Sorted(S) ==
    IF S = {} THEN <<>>
    ELSE LET m == CHOOSE x \in S : \A y \in S \ {x} : LexLess(x, y)
         IN  <<m>> \o Sorted(S \ {m})

\* df[column].value_counts(): the count of every value, missing values dropped
value_counts(df, column) ==
    [v \in {df[i][column] : i \in 1..Len(df)} \ {None, NaCell} |->
        Cardinality({i \in 1..Len(df) : df[i][column] = v})]

\* prepare_filter_options that lists the values in descending order
prepare_filter_options_descending(df, column) ==
    LET counts == value_counts(df, column)
        values == Sorted(DOMAIN counts)
        n == Len(values)
    IN  [k \in 1..n |-> [value |-> values[n + 1 - k], count |-> counts[values[n + 1 - k]]]]

\* prepare_filter_options of update_dashboard: one option per value, labelled
\* with its count
prepare_filter_options(df, column) ==
    LET counts == value_counts(df, column)
        values == Sorted(DOMAIN counts)
    IN  [k \in 1..Len(values) |-> [value |-> values[k], count |-> counts[values[k]]]]

\* the options of the four filter dropdowns
FilterOptions(df) ==
    [task |-> prepare_filter_options(df, "Task"),
     nat |-> prepare_filter_options(df, "Nationality"),
     status |-> prepare_filter_options(df, "Status"),
     type |-> prepare_filter_options(df, "Type")]

NoOptions == [task |-> <<>>, nat |-> <<>>, status |-> <<>>, type |-> <<>>]

\* ApplyThresholds without the test of the value
ApplyThresholdsUnchecked(thresholds, values) ==
    [t \in DOMAIN thresholds |-> IF values[t] # NaN THEN values[t] ELSE thresholds[t]]

\* the 'Update thresholds' branch of update_dashboard: the configuration
ApplyThresholds(thresholds, values) ==
    [t \in DOMAIN thresholds |->
        IF values[t] # NaN /\ values[t] > 0 THEN values[t] ELSE thresholds[t]]

\* the 'Update thresholds' branch of update_dashboard: the loaded rows
Reclassify(data, thresholds) ==
    [i \in 1..Len(data) |->
        [data[i] EXCEPT !.Threshold = MapThreshold(thresholds, data[i].Task),
                        !.Priority = calculate_priority(data[i], thresholds),
                        !.IsDelayed =
                            IF data[i].Delay # NaN /\ data[i].Task # None
                            THEN GT(data[i].Delay, Get(thresholds, data[i].Task, DEFAULT_THRESHOLD))
                            ELSE FALSE]]

ThresholdButton == "update-thresholds-button.n_clicks"

\* what the user can leave in a threshold input: nothing, 0, a negative number,
\* a new limit
ThresholdEntries == {NaN, 0, -5, 60}

\* update_dashboard that classifies an upload with the built-in defaults
update_dashboard_defaults(trigger, upload, f, values) ==
    LET clicked == trigger = ThresholdButton
        th1 == IF clicked THEN ApplyThresholds(task_thresholds, values) ELSE task_thresholds
        cd1 == IF clicked /\ current_data # <<>> THEN Reclassify(current_data, th1)
               ELSE current_data
        failed == upload # <<>> /\ ~upload[1].readable
        cd2 == IF upload # <<>> /\ ~failed THEN process_data(upload[1], TASK_THRESHOLDS) ELSE cd1
        filtered == FilterRows(cd2, f)
    IN  /\ user_edited' = FALSE
        /\ UNCHANGED <<now, distVars>>
        /\ download' = <<>>
        /\ task_thresholds' = th1
        /\ current_data' = cd2
        /\ IF failed
           THEN /\ table' = <<>> /\ stats' = NoStatistics /\ outcome' = "error"
                /\ options' = NoOptions
           ELSE IF cd2 = <<>>
           THEN /\ table' = <<>> /\ stats' = NoStatistics /\ outcome' = "empty"
                /\ options' = NoOptions
           ELSE /\ table' = filtered /\ stats' = Statistics(filtered) /\ outcome' = "ok"
                /\ options' = FilterOptions(filtered)

\* update_dashboard, called with the trigger, the value of the upload component
\* (none, or the last uploaded file), the filter values and the threshold inputs
update_dashboard(trigger, upload, f, values) ==
    LET clicked == trigger = ThresholdButton
        th1 == IF clicked THEN ApplyThresholds(task_thresholds, values) ELSE task_thresholds
        cd1 == IF clicked /\ current_data # <<>> THEN Reclassify(current_data, th1)
               ELSE current_data
        failed == upload # <<>> /\ ~upload[1].readable
        cd2 == IF upload # <<>> /\ ~failed THEN process_data(upload[1], th1) ELSE cd1
        filtered == FilterRows(cd2, f)
    IN  /\ user_edited' = FALSE
        /\ UNCHANGED <<now, distVars>>
        /\ download' = <<>>
        /\ task_thresholds' = th1
        /\ current_data' = cd2
        /\ IF failed
           THEN /\ table' = <<>> /\ stats' = NoStatistics /\ outcome' = "error"
                /\ options' = NoOptions
           ELSE IF cd2 = <<>>
           THEN /\ table' = <<>> /\ stats' = NoStatistics /\ outcome' = "empty"
                /\ options' = NoOptions
           ELSE /\ table' = filtered /\ stats' = Statistics(filtered) /\ outcome' = "ok"
                /\ options' = FilterOptions(filtered)

\* the priority block of update_table_data; float(None) raises and gives Low
EditedPriority(row) ==
    IF row.Delay = NaN \/ row.Threshold = NaN THEN "Low"
    ELSE IF row.Delay > row.Threshold * 2 THEN "High"
    ELSE IF row.Delay > row.Threshold THEN "Medium"
    ELSE "Low"

\* update_table_data(timestamp, current_data, previous_data): the new table data
update_table_data(current, previous) ==
    IF current = <<>> THEN <<>>
    ELSE LET changed == IF previous # <<>>
                        THEN {i \in 1..Len(current) : i <= Len(previous) /\ current[i] # previous[i]}
                        ELSE 1..Len(current)
         IN  [i \in 1..Len(current) |->
                 IF i \in changed
                 THEN [current[i] EXCEPT !.LastUpdated = now,
                                         !.Priority = EditedPriority(current[i])]
                 ELSE current[i]]

(* ------------------------------- actions ------------------------------ *)
Init ==
    /\ task_thresholds = TASK_THRESHOLDS
    /\ current_data = <<>>
    /\ contents = <<>>
    /\ filters = NoFilters
    /\ table = <<>>
    /\ stats = NoStatistics
    /\ outcome = "empty"
    /\ user_edited = FALSE
    /\ options = NoOptions
    /\ now = 0
    /\ download = <<>>
    /\ distribution_record = <<>>
    /\ decision_log = <<>>
    /\ dist_status = "none"

\* the user drops a file on the upload component
Upload(file) ==
    /\ contents' = <<file>>
    /\ filters' = filters
    /\ update_dashboard("upload-data.contents", <<file>>, filters, TASK_THRESHOLDS)

\* the user changes the selection of one filter dropdown
SetFilter(col, value) ==
    /\ value # filters[col]
    /\ filters' = [filters EXCEPT ![col] = value]
    /\ contents' = contents
    /\ update_dashboard("filter.value", contents, filters', TASK_THRESHOLDS)

\* the user fills the threshold inputs and clicks 'Update Thresholds'
UpdateThresholds(values) ==
    /\ UNCHANGED <<contents, filters>>
    /\ update_dashboard(ThresholdButton, contents, filters, values)

EditAssignees == {"Amin", "Unassigned"}
EditNotes == {"called"}
EditDelays == {NaN, 10}

\* the user edits one cell of the displayed table
EditCell(i, col, value) ==
    /\ i \in 1..Len(table)
    /\ LET edited == CASE col = "Assignee" -> [table EXCEPT ![i].Assignee = value]
                       [] col = "Notes" -> [table EXCEPT ![i].Notes = value]
                       [] col = "Delay" -> [table EXCEPT ![i].Delay = value]
       IN  /\ edited # table
           /\ table' = update_table_data(edited, table)
    /\ user_edited' = TRUE
    /\ download' = <<>>
    /\ UNCHANGED <<task_thresholds, current_data, contents, filters, stats, outcome, options, now,
                   distVars>>

\* the user deletes one row of the displayed table (row_deletable)
DeleteRow(i) ==
    /\ i \in 1..Len(table)
    /\ LET kept == [k \in 1..(Len(table) - 1) |-> IF k < i THEN table[k] ELSE table[k + 1]]
       IN  table' = update_table_data(kept, table)
    /\ user_edited' = TRUE
    /\ download' = <<>>
    /\ UNCHANGED <<task_thresholds, current_data, contents, filters, stats, outcome, options, now,
                   distVars>>

\* the columns that download_table_data keeps
TableExportRow(r) ==
    [name |-> r.name, Task |-> r.Task, Delay |-> r.Delay, Threshold |-> r.Threshold,
     Assignee |-> r.Assignee, Nationality |-> r.Nationality, Status |-> r.Status,
     Type |-> r.Type]

\* the user clicks 'Download table': download_table_data sends the rows of the
\* table; download is the file that the last event sent, if it sent one
DownloadTable ==
    /\ download' = IF table = <<>> THEN <<>>
                   ELSE <<[file |-> "delayed_maids_table_export", stamp |-> now,
                           rows |-> [i \in 1..Len(table) |-> TableExportRow(table[i])]]>>
    /\ UNCHANGED <<task_thresholds, current_data, contents, filters, table, stats, outcome,
                   user_edited, options, now, distVars>>

\* the user clicks 'Export': export_data sends the working table
ExportData ==
    /\ download' = IF current_data = <<>> THEN <<>>
                   ELSE <<[file |-> "delayed_maids_export", stamp |-> now,
                           rows |-> current_data]>>
    /\ UNCHANGED <<task_thresholds, current_data, contents, filters, table, stats, outcome,
                   user_edited, options, now, distVars>>

\* a second passes on the clock that datetime.now() reads
Tick ==
    /\ now < MaxClock
    /\ now' = now + 1
    /\ UNCHANGED <<task_thresholds, current_data, contents, filters, table, stats, outcome,
                   user_edited, options, download, distVars>>

\* the dashboard with the edits of the displayed table, within one second and
\* without exports
Next ==
    \/ \E file \in Files : Upload(file)
    \/ \E col \in DOMAIN FilterChoices : \E value \in FilterChoices[col] : SetFilter(col, value)
    \/ \E values \in [DOMAIN TASK_THRESHOLDS -> ThresholdEntries] : UpdateThresholds(values)
    \/ \E i \in 1..MaxRows : \E value \in EditAssignees : EditCell(i, "Assignee", value)
    \/ \E i \in 1..MaxRows : \E value \in EditNotes : EditCell(i, "Notes", value)
    \/ \E i \in 1..MaxRows : \E value \in EditDelays : EditCell(i, "Delay", value)
    \/ \E i \in 1..MaxRows : DeleteRow(i)

Spec == Init /\ [][Next]_vars

\* the update_dashboard callback alone: no user edit of the displayed table
NextDashboard ==
    \/ \E file \in Files : Upload(file)
    \/ \E col \in DOMAIN FilterChoices : \E value \in FilterChoices[col] : SetFilter(col, value)
    \/ \E values \in [DOMAIN TASK_THRESHOLDS -> ThresholdEntries] : UpdateThresholds(values)

SpecDashboard == Init /\ [][NextDashboard]_vars

(* ------- every event of a session, on sheets of one kind of row ------- *)
SessionFiles ==
    {GoodFile([i \in 1..Len(c) |-> SheetRow(i, c[i])], TRUE) :
        c \in SeqsUpTo({TaskA} \X DelayCells, MaxRows)}

\* the threshold inputs: any entry for TaskA, nothing for TaskB
SessionThresholdValues == {(TaskA :> v) @@ (TaskB :> NaN) : v \in ThresholdEntries}

NextSession ==
    \/ \E file \in SessionFiles : Upload(file)
    \/ \E value \in FilterChoices.nat : SetFilter("nat", value)
    \/ \E values \in SessionThresholdValues : UpdateThresholds(values)
    \/ \E i \in 1..MaxRows : \E value \in EditAssignees : EditCell(i, "Assignee", value)
    \/ \E i \in 1..MaxRows : DeleteRow(i)
    \/ DownloadTable
    \/ ExportData
    \/ Tick

SpecSession == Init /\ [][NextSession]_vars

(* -------------------------- Folder Distributor ------------------------ *)
dashVars == <<task_thresholds, current_data, contents, filters, table, stats, outcome,
              user_edited, options, now, download>>

\* the reviewers: token and display name
ReviewerName == ("t1" :> "Ann") @@ ("t2" :> "Bob") @@ ("t3" :> "Cy")
Tokens == DOMAIN ReviewerName
Decisions == {"accept", "reject"}

\* the item lists of a run: items 1..n in ascending and in descending order
ItemLists == {[i \in 1..n |-> i] : n \in 0..MaxItems}
             \cup {[i \in 1..n |-> MaxItems + 1 - i] : n \in 1..MaxItems}

\* the selected reviewers of a run, in any order, each once
Selections ==
    {r \in SeqsUpTo(Tokens, Cardinality(Tokens)) : \A i, j \in 1..Len(r) : r[i] = r[j] => i = j}

\* the pairs of a run that deals the items out one by one
DistributePairsRoundRobin(items, reviewers) ==
    [k \in 1..Len(items) |->
        [token |-> reviewers[((k - 1) % Len(reviewers)) + 1], item |-> items[k]]]

\* reviewer i and the ones after it take their blocks from the items left
RECURSIVE AssignBlocks(_, _, _, _, _)
AssignBlocks(items, reviewers, per, extra, i) ==
    IF i > Len(reviewers) THEN <<>>
    ELSE LET count == per + (IF i <= extra THEN 1 ELSE 0)
         IN  [k \in 1..count |-> [token |-> reviewers[i], item |-> items[k]]]
             \o AssignBlocks(SubSeq(items, count + 1, Len(items)), reviewers, per, extra, i + 1)

\* Distribute items: the (token, item) pairs of one run
DistributePairs(items, reviewers) ==
    AssignBlocks(items, reviewers, Len(items) \div Len(reviewers),
                 Len(items) % Len(reviewers), 1)

\* Distribute that fails only without reviewers
DistributeUnlessNoReviewer(items, reviewers) ==
    /\ IF Len(reviewers) = 0
       THEN /\ dist_status' = "failed"
            /\ UNCHANGED distribution_record
       ELSE /\ Len(distribution_record) + Len(items) <= MaxPairs
            /\ distribution_record' = distribution_record \o DistributePairs(items, reviewers)
            /\ dist_status' = "distributed"
    /\ UNCHANGED <<decision_log, dashVars>>

\* Distribute items
Distribute(items, reviewers) ==
    /\ IF Len(items) = 0 \/ Len(reviewers) = 0
       THEN /\ dist_status' = "failed"
            /\ UNCHANGED distribution_record
       ELSE /\ Len(distribution_record) + Len(items) <= MaxPairs
            /\ distribution_record' = distribution_record \o DistributePairs(items, reviewers)
            /\ dist_status' = "distributed"
    /\ UNCHANGED <<decision_log, dashVars>>

\* List assignments for reviewer
Assignments(token) ==
    LET rows == SelectSeq(distribution_record, LAMBDA p : p.token = token)
    IN  [k \in 1..Len(rows) |-> rows[k].item]

\* the reviewed set: the items of the log entries with the reviewer's name
Reviewed(token) ==
    {decision_log[k].item : k \in {j \in 1..Len(decision_log) :
                                      decision_log[j].reviewer = ReviewerName[token]}}

\* the queue that skips as many assignments as there are reviewed items
UnreviewedQueueByCount(token) ==
    SubSeq(Assignments(token), Cardinality(Reviewed(token)) + 1, Len(Assignments(token)))

\* Compute unreviewed queue
UnreviewedQueue(token) ==
    SelectSeq(Assignments(token), LAMBDA item : item \notin Reviewed(token))

\* Progress, in tenths of a percent, rounded
Progress(token) ==
    IF Assignments(token) = <<>> THEN 0
    ELSE (2000 * Cardinality(Reviewed(token)) + Len(Assignments(token)))
             \div (2 * Len(Assignments(token)))

\* Record decision that takes the last item of the queue
RecordDecisionOnLast(token, decision) ==
    /\ LET queue == UnreviewedQueue(token)
       IN  IF queue = <<>>
           THEN /\ dist_status' = "nothing to review"
                /\ UNCHANGED decision_log
           ELSE /\ Len(decision_log) < MaxLog
                /\ decision_log' = Append(decision_log,
                       [item |-> queue[Len(queue)], reviewer |-> ReviewerName[token],
                        decision |-> decision])
                /\ dist_status' = "recorded"
    /\ UNCHANGED <<distribution_record, dashVars>>

\* Record decision
RecordDecision(token, decision) ==
    /\ LET queue == UnreviewedQueue(token)
       IN  IF queue = <<>>
           THEN /\ dist_status' = "nothing to review"
                /\ UNCHANGED decision_log
           ELSE /\ Len(decision_log) < MaxLog
                /\ decision_log' = Append(decision_log,
                       [item |-> Head(queue), reviewer |-> ReviewerName[token],
                        decision |-> decision])
                /\ dist_status' = "recorded"
    /\ UNCHANGED <<distribution_record, dashVars>>

\* distribution runs alone, with any selection of reviewers
NextDistribute ==
    \E items \in ItemLists : \E reviewers \in Selections : Distribute(items, reviewers)

SpecDistribute == Init /\ [][NextDistribute]_vars

\* runs for nobody, for the first reviewer, or for the first two, and the
\* decisions of every reviewer
ReviewSelections == {<<>>, <<"t1">>, <<"t2", "t1">>}

NextDistributor ==
    \/ \E items \in ItemLists : \E reviewers \in ReviewSelections : Distribute(items, reviewers)
    \/ \E token \in Tokens : \E decision \in Decisions : RecordDecision(token, decision)

SpecDistributor == Init /\ [][NextDistributor]_vars

(* ------------- process_data as a function of one upload --------------- *)
\* the first upload of a session, of a file of the set S
FirstUpload(S) ==
    /\ contents = <<>>
    /\ \E file \in S : Upload(file)

\* sheets whose delay cells are empty, no number, or on and around the limits
ClassifyTaskCells == {NaCell, TaskA, TaskU}
ClassifyDelayCells ==
    {<<>>, Unparseable, <<49, 50>>, <<49, 51>>, <<50, 52>>, <<50, 53>>, <<52, 56>>, <<52, 57>>}

ClassifyFiles ==
    {GoodFile([i \in 1..Len(c) |-> SheetRow(i, c[i])], FALSE) :
        c \in SeqsUpTo(ClassifyTaskCells \X ClassifyDelayCells, MaxRows)}

\* the session starts with the default limits or after TaskA was set to 12
InitClassify ==
    /\ task_thresholds \in {TASK_THRESHOLDS, [TASK_THRESHOLDS EXCEPT ![TaskA] = 12]}
    /\ current_data = <<>>
    /\ contents = <<>>
    /\ filters = NoFilters
    /\ table = <<>>
    /\ stats = NoStatistics
    /\ outcome = "empty"
    /\ user_edited = FALSE
    /\ options = NoOptions
    /\ now = 0
    /\ download = <<>>
    /\ distribution_record = <<>>
    /\ decision_log = <<>>
    /\ dist_status = "none"

NextClassify == FirstUpload(ClassifyFiles)

SpecClassify == InitClassify /\ [][NextClassify]_vars

\* sheets whose task cells are missing, empty, blank, plain or padded
NormalizeTaskCells == {NaCell, <<>>, <<SP>>, TaskA, TaskB, <<SP, 65>>}

NormalizeFiles ==
    {GoodFile([i \in 1..Len(c) |-> SheetRow(i, <<c[i], <<53, 48>>>>)], FALSE) :
        c \in SeqsUpTo(NormalizeTaskCells, MaxCells)}

NextNormalize == FirstUpload(NormalizeFiles)

SpecNormalize == Init /\ [][NextNormalize]_vars

(* ------------------------------- claims ------------------------------- *)
\* the rows of the uploaded sheet, as uploaded
Uploaded == IF contents = <<>> THEN <<>> ELSE contents[1].rows

\* the limit the configuration gives a task, 24 for a task it does not hold
Resolved(task) == IF task \in DOMAIN task_thresholds THEN task_thresholds[task] ELSE 24

NoNumber(cell) == cell \in {<<>>, Unparseable}

\* C2: every row's priority is High when its delay is present and above twice
\* the limit of its task, Medium when present, above the limit and at most
\* twice the limit, Low otherwise (delay absent or no number, delay equal to
\* the limit); a delay of exactly twice the limit gives Medium; processing a
\* readable sheet reports no error.
C2_PriorityTiers ==
    /\ outcome # "error"
    /\ Len(current_data) = Len(Uploaded)
    /\ \A i \in 1..Len(current_data) :
        LET r == current_data[i]
            d == r.Delay
            t == Resolved(r.Task)
        IN  /\ NoNumber(Uploaded[i].Delay) => d = NaN
            /\ r.Priority = IF d # NaN /\ d > 2 * t THEN "High"
                            ELSE IF d # NaN /\ t < d /\ d <= 2 * t THEN "Medium"
                            ELSE "Low"

C2_Witness ==
    /\ Len(current_data) = 2
    /\ task_thresholds[TaskA] = 24
    /\ current_data[1].Task = TaskA /\ current_data[1].Delay = 48
    /\ current_data[1].Priority = "Medium"
    /\ current_data[2].Task = TaskA /\ current_data[2].Delay = 24
    /\ current_data[2].Priority = "Low"

\* C3: a row is delayed exactly when its delay is present and above the limit
\* of its task, the limit being 24 for a task without an entry, also for a row
\* whose task is still blank after normalization.
C3_DelayedAlsoBlankTask ==
    \A i \in 1..Len(current_data) :
        LET r == current_data[i]
        IN  r.IsDelayed = (r.Delay # NaN /\ r.Delay > Resolved(r.Task))

\* the sheet without its row i
WithoutRow(file, i) ==
    [file EXCEPT !.rows = [k \in 1..(Len(file.rows) - 1) |->
                              IF k < i THEN file.rows[k] ELSE file.rows[k + 1]]]

\* the sheet with the delay cell of row i replaced
WithDelayCell(file, i, cell) == [file EXCEPT !.rows[i].Delay = cell]

Classification(r) == <<r.IsDelayed, r.Priority>>

\* C10 (as amended): a row whose delay cell is no number is kept in the working
\* table with its delay absent, not delayed and of Low priority; no error is
\* reported; and every other row of the upload is classified exactly as it is
\* when that cell holds a number (the row still hands its task down to the
\* blank task cells below it).
C10_BadDelayCellIsLocal ==
    \A i \in 1..Len(Uploaded) :
        NoNumber(Uploaded[i].Delay) =>
            /\ outcome = "ok"
            /\ Len(current_data) = Len(Uploaded)
            /\ current_data[i].name = Uploaded[i].name
            /\ current_data[i].Delay = NaN
            /\ current_data[i].IsDelayed = FALSE
            /\ current_data[i].Priority = "Low"
            /\ \A cell \in ClassifyDelayCells : ~NoNumber(cell) =>
                 LET other == process_data(WithDelayCell(contents[1], i, cell), task_thresholds)
                 IN  \A j \in 1..Len(Uploaded) : j # i => current_data[j] = other[j]

\* C10: as above, and every other row of the upload is classified exactly as
\* it is when the sheet is uploaded without that row.
C10_AsWithoutTheRow ==
    \A i \in 1..Len(Uploaded) :
        NoNumber(Uploaded[i].Delay) =>
            /\ outcome = "ok"
            /\ Len(current_data) = Len(Uploaded)
            /\ current_data[i].Delay = NaN
            /\ current_data[i].IsDelayed = FALSE
            /\ current_data[i].Priority = "Low"
            /\ LET other == process_data(WithoutRow(contents[1], i), task_thresholds)
               IN  \A j \in 1..Len(Uploaded) : j # i =>
                     Classification(current_data[j])
                        = Classification(other[IF j < i THEN j ELSE j - 1])

C10_Witness ==
    /\ Len(Uploaded) = 2
    /\ Uploaded[1].Task = TaskA /\ Uploaded[1].Delay = Unparseable
    /\ Uploaded[2].Task = NaCell
    /\ current_data[1].Delay = NaN /\ current_data[1].Priority = "Low"
    /\ current_data[2].Task = TaskA /\ current_data[2].Delay = 49
    /\ current_data[2].IsDelayed /\ current_data[2].Priority = "High"

\* a task cell that is missing, empty or made of spaces only
Blank(cell) == cell = NaCell \/ \A k \in 1..Len(cell) : cell[k] = SP

\* the nearest non-blank task cell at or above row i of the upload, 0 if none
Source(i) ==
    LET above == {k \in 1..i : ~Blank(Uploaded[k].Task)}
    IN  IF above = {} THEN 0 ELSE CHOOSE k \in above : \A m \in above : m <= k

\* C9 (as amended): normalization keeps the length of the task column; every
\* cell, blank or not, becomes the nearest non-blank cell at or above it with
\* its leading and trailing spaces removed; the cells above the first
\* non-blank cell stay blank.
C9_ForwardFillStripped ==
    /\ Len(current_data) = Len(Uploaded)
    /\ \A i \in 1..Len(current_data) :
         current_data[i].Task = IF Source(i) = 0 THEN None ELSE Strip(Uploaded[Source(i)].Task)

\* C9: as above, the cell taking the value of the nearest non-blank cell as it
\* stands in the sheet (a non-blank cell keeps its own value).
C9_ForwardFillVerbatim ==
    /\ Len(current_data) = Len(Uploaded)
    /\ \A i \in 1..Len(current_data) :
         current_data[i].Task = IF Source(i) = 0 THEN None ELSE Uploaded[Source(i)].Task

\* [blank, ' A', missing, empty, B] becomes [blank, A, A, A, B]
C9_Witness ==
    /\ [i \in 1..Len(Uploaded) |-> Uploaded[i].Task] = <<<<SP>>, <<SP, 65>>, NaCell, <<>>, TaskB>>
    /\ [i \in 1..Len(current_data) |-> current_data[i].Task] = <<None, TaskA, TaskA, TaskA, TaskB>>

\* C4: every row of the working table stores the limit of its task as its
\* threshold: the configuration entry of the task, 24 when the task has no
\* entry; the stored threshold is never absent.
C4_StoredThreshold ==
    \A i \in 1..Len(current_data) :
        /\ current_data[i].Threshold # NaN
        /\ current_data[i].Threshold = Resolved(current_data[i].Task)

\* a pair of a threshold update that the update applies
Applies(value) == value # NaN /\ value > 0

\* C6: a threshold update sets the entry of every task whose new value is
\* present and above 0 to that value and keeps the entry of every other task,
\* whatever the other values of the same update are; it reports an error only
\* when the uploaded file cannot be read.
C6_ThresholdUpdate ==
    [][\A values \in [DOMAIN TASK_THRESHOLDS -> ThresholdEntries] :
          UpdateThresholds(values) =>
              /\ DOMAIN task_thresholds' = DOMAIN task_thresholds
              /\ \A t \in DOMAIN task_thresholds :
                    task_thresholds'[t] = IF Applies(values[t]) THEN values[t]
                                          ELSE task_thresholds[t]
              /\ outcome' = "error" => (contents # <<>> /\ ~contents[1].readable)]_vars

\* TaskA was updated to 60 by an update whose value for TaskB was not applied
C6_Witness ==
    /\ task_thresholds[TaskA] = 60
    /\ task_thresholds[TaskB] = 48
    /\ outcome = "ok"

\* the rows of the working table that the dashboard shows
Shown(r) ==
    /\ r.IsDelayed
    /\ (filters.task # {} => r.Task \in filters.task)
    /\ (filters.nat # {} => r.Nationality \in filters.nat)
    /\ (filters.status # {} => r.Status \in filters.status)
    /\ (filters.type # {} => r.Type \in filters.type)

\* C7: the table that update_dashboard displays (when it reports no error)
\* holds exactly the delayed rows of the working table whose task,
\* nationality, status and type are in the filter of that column, a filter
\* without a value constraining nothing, in the order of the working table.
C7_DisplayedRows ==
    (~user_edited /\ outcome # "error") =>
        LET shown == {i \in 1..Len(current_data) : Shown(current_data[i])}
        IN  /\ Len(table) = Cardinality(shown)
            /\ {table[k] : k \in 1..Len(table)} = {current_data[i] : i \in shown}
            /\ \A k, m \in 1..Len(table) : k < m => table[k].name < table[m].name

\* the status filter hides one of two delayed rows, the other filters are empty
C7_Witness ==
    /\ ~user_edited /\ outcome = "ok"
    /\ filters = [NoFilters EXCEPT !.status = {Sta1}]
    /\ Len(current_data) = 2 /\ Len(table) = 1
    /\ current_data[1].IsDelayed /\ current_data[2].IsDelayed

\* C8: the total is the number of rows of the filtered delayed subset, the
\* critical count the number of its rows whose delay is above twice the limit
\* of their task (24 for a task without an entry), the unassigned count the
\* number of its rows assigned to "Unassigned".
C8_Statistics ==
    outcome = "ok" =>
        LET shown == {i \in 1..Len(current_data) : Shown(current_data[i])}
        IN  /\ stats.total = Cardinality(shown)
            /\ stats.critical = Cardinality({i \in shown :
                    current_data[i].Delay > 2 * Resolved(current_data[i].Task)})
            /\ stats.unassigned = Cardinality({i \in shown :
                    current_data[i].Assignee = "Unassigned"})

\* C1: every row on screen has the priority and the delayed flag that its
\* current delay and the limit of its task give, also after a cell edit that
\* changes its delay.
C1_DerivedFieldsCurrent ==
    \A k \in 1..Len(table) :
        LET r == table[k]
            d == r.Delay
            t == Resolved(r.Task)
        IN  /\ r.IsDelayed = (d # NaN /\ d > t)
            /\ r.Priority = IF d # NaN /\ d > 2 * t THEN "High"
                            ELSE IF d # NaN /\ d > t THEN "Medium"
                            ELSE "Low"

\* C5: a filter change or a threshold update that changes a limit keeps, for every row that stays
\* on screen, the assignee, the notes and the delay the row had before it,
\* manual edits included.
C5_EditsSurviveRefresh ==
    [][((\E col \in DOMAIN FilterChoices : \E value \in FilterChoices[col] : SetFilter(col, value))
         \/ (/\ task_thresholds' # task_thresholds
             /\ \E values \in [DOMAIN TASK_THRESHOLDS -> ThresholdEntries] : UpdateThresholds(values)))
        => \A k \in 1..Len(table) : \A m \in 1..Len(table') :
              table'[m].name = table[k].name =>
                  /\ table'[m].Assignee = table[k].Assignee
                  /\ table'[m].Notes = table[k].Notes
                  /\ table'[m].Delay = table[k].Delay]_vars

\* C11: after the upload of a sheet without the Task column or without the
\* Real Delay (hours) column the dashboard reports an error and the working
\* table holds no row.
C11_MissingColumnReported ==
    (contents # <<>> /\ contents[1].readable /\ (~contents[1].hasTask \/ ~contents[1].hasDelay))
        => (outcome = "error" /\ current_data = <<>>)

\* C12: the options of each of the four filter dropdowns are the distinct
\* values of its column in the filtered delayed rows, each with the number of
\* rows that hold it, in ascending order of the value.
C12_FilterOptions ==
    outcome = "ok" =>
        LET rows == FilterRows(current_data, filters)
            Column == [task |-> "Task", nat |-> "Nationality", status |-> "Status", type |-> "Type"]
        IN  \A f \in DOMAIN Column :
                LET o == options[f]
                    Holds(v) == {i \in 1..Len(rows) : rows[i][Column[f]] = v}
                IN  /\ {o[k].value : k \in 1..Len(o)} = {rows[i][Column[f]] : i \in 1..Len(rows)}
                    /\ \A k \in 1..Len(o) : o[k].count = Cardinality(Holds(o[k].value))
                    /\ \A k \in 1..(Len(o) - 1) : LexLess(o[k].value, o[k + 1].value)

\* two displayed rows with the same task, and with statuses S2 then S1
C12_Witness ==
    /\ outcome = "ok"
    /\ options.task = <<[value |-> TaskB, count |-> 2]>>
    /\ options.status = <<[value |-> Sta1, count |-> 1], [value |-> Sta2, count |-> 1]>>
    /\ Len(table) = 2 /\ table[1].Status = Sta2

\* C17: after an upload and after every threshold update, every row of the
\* working table is delayed exactly when its priority is Medium or High, also
\* a row whose task is blank.
C17_DelayedIffMediumOrHigh ==
    \A i \in 1..Len(current_data) :
        current_data[i].IsDelayed = (current_data[i].Priority \in {"Medium", "High"})

\* C18: in every refresh the critical count is the number of displayed rows
\* whose priority is High, also for rows whose task has no entry in the
\* configuration.
C18_CriticalIsHighCount ==
    (outcome = "ok" /\ ~user_edited) =>
        stats.critical = Cardinality({i \in 1..Len(table) : table[i].Priority = "High"})

\* C19: a deletion in the displayed table leaves the Last Updated and the
\* Priority of every row that stays as they were, also of the rows below the
\* deleted one, and a cell edit sets Last Updated on the edited row only.
C19_EditTouchesChangedRowsOnly ==
    [][/\ \A i \in 1..MaxRows : DeleteRow(i) =>
              \A k \in 1..Len(table') : \A j \in 1..Len(table) :
                  table[j].name = table'[k].name =>
                      /\ table'[k].LastUpdated = table[j].LastUpdated
                      /\ table'[k].Priority = table[j].Priority
       /\ \A i \in 1..MaxRows : (\E value \in EditAssignees : EditCell(i, "Assignee", value)) =>
              \A k \in 1..Len(table) : k # i =>
                  /\ table'[k].LastUpdated = table[k].LastUpdated
                  /\ table'[k].Priority = table[k].Priority]_vars

\* C20: the threshold configuration changes only in a threshold-update event;
\* uploads, filter changes, cell edits, row deletions and exports leave it as
\* it is, and an upload is classified with the configuration in force.
C20_ThresholdsStayInForce ==
    [][/\ task_thresholds' # task_thresholds =>
              \E values \in [DOMAIN TASK_THRESHOLDS -> ThresholdEntries] : UpdateThresholds(values)
       /\ \A file \in SessionFiles : Upload(file) =>
              /\ task_thresholds' = task_thresholds
              /\ current_data' = process_data(file, task_thresholds)]_vars

\* TaskA was set to 60, a second later the sheet was classified with 60, and
\* the last event was an export
C20_Witness ==
    /\ task_thresholds[TaskA] = 60
    /\ now = 1
    /\ download # <<>>
    /\ download[1].file = "delayed_maids_export"
    /\ download[1].rows[1].Task = TaskA
    /\ download[1].rows[1].LastUpdated = 1
    /\ download[1].rows[1].Threshold = 60
    /\ download[1].rows[1].Priority = "Low"

\* the index of a token in the list of selected reviewers
Position(reviewers, token) == CHOOSE i \in 1..Len(reviewers) : reviewers[i] = token

\* C13: a run with N items and M >= 1 reviewers appends one pair per item, in
\* item order; reviewer i gets N div M of them, one more if i <= N mod M, and
\* the reviewers' blocks follow each other in reviewer order.
C13_EvenContiguousPartition ==
    [][\A items \in ItemLists : \A reviewers \in Selections :
          (Len(items) > 0 /\ Len(reviewers) > 0 /\ Distribute(items, reviewers)) =>
              LET N == Len(items)
                  M == Len(reviewers)
                  old == Len(distribution_record)
                  new == SubSeq(distribution_record', old + 1, Len(distribution_record'))
              IN  /\ SubSeq(distribution_record', 1, old) = distribution_record
                  /\ Len(new) = N
                  /\ \A k \in 1..N : new[k].item = items[k]
                  /\ \A i \in 1..M :
                         Cardinality({k \in 1..N : new[k].token = reviewers[i]})
                             = (N \div M) + (IF i <= N % M THEN 1 ELSE 0)
                  /\ \A k \in 1..(N - 1) :
                         Position(reviewers, new[k].token) <= Position(reviewers, new[k + 1].token)]_vars

\* three items in descending order went to t2 and t1: two to t2, one to t1
C13_Witness ==
    /\ dist_status = "distributed"
    /\ distribution_record = <<[token |-> "t2", item |-> 3], [token |-> "t2", item |-> 2],
                               [token |-> "t1", item |-> 1]>>

\* C14: a run without items or without reviewers reports failure and appends
\* no pair to the Distribution Record.
C14_EmptyRunFails ==
    [][\A items \in ItemLists : \A reviewers \in Selections :
          ((Len(items) = 0 \/ Len(reviewers) = 0) /\ Distribute(items, reviewers)) =>
              /\ dist_status' = "failed"
              /\ distribution_record' = distribution_record]_vars

\* a run failed after an earlier run had written pairs
C14_Witness ==
    /\ dist_status = "failed"
    /\ distribution_record # <<>>

\* C15: the unreviewed queue of every reviewer is the assignment list without
\* the reviewed items, in assignment order, and the progress is the share of
\* reviewed items in the assignments as a percentage, 0 without assignments.
C15_QueueAndProgress ==
    \A token \in Tokens :
        LET a == Assignments(token)
            q == UnreviewedQueue(token)
            keep == {k \in 1..Len(a) : a[k] \notin Reviewed(token)}
            Diff(x, y) == IF x >= y THEN x - y ELSE y - x
        IN  /\ Len(q) = Cardinality(keep)
            /\ \A k \in keep : q[Cardinality({j \in keep : j <= k})] = a[k]
            /\ IF a = <<>> THEN Progress(token) = 0
               ELSE 2 * Diff(Progress(token) * Len(a), 1000 * Cardinality(Reviewed(token))) <= Len(a)

\* t1 holds item 1 twice with item 2 between, and has reviewed item 1
C15_Witness ==
    /\ Assignments("t1") = <<1, 2, 1>>
    /\ Reviewed("t1") = {1}
    /\ UnreviewedQueue("t1") = <<2>>
    /\ Progress("t1") = 333

\* a record-decision step of the reviewer with a queue that is not empty: one
\* entry for the head of the queue is appended and the head is reviewed
LogsHead(token, decision) ==
    /\ decision_log' = Append(decision_log,
           [item |-> Head(UnreviewedQueue(token)), reviewer |-> ReviewerName[token],
            decision |-> decision])
    /\ Head(UnreviewedQueue(token)) \in Reviewed(token)'

\* a record-decision step of the reviewer with an empty queue changes nothing
NoOp(token) ==
    /\ decision_log' = decision_log
    /\ Reviewed(token)' = Reviewed(token)
    /\ UnreviewedQueue(token)' = UnreviewedQueue(token)

\* C16 as stated: record decision on a queue that is not empty logs the head
\* and leaves the previous queue without its head; on an empty queue it
\* changes nothing.
C16_QueueLosesHead ==
    [][\A token \in Tokens : \A decision \in Decisions : RecordDecision(token, decision) =>
          IF UnreviewedQueue(token) # <<>>
          THEN /\ LogsHead(token, decision)
               /\ UnreviewedQueue(token)' = Tail(UnreviewedQueue(token))
          ELSE NoOp(token)]_vars

\* C16, amended: record decision on a queue that is not empty logs the head
\* and leaves the previous queue without every occurrence of the head item;
\* on an empty queue it changes nothing.
C16_QueueLosesHeadItem ==
    [][\A token \in Tokens : \A decision \in Decisions : RecordDecision(token, decision) =>
          IF UnreviewedQueue(token) # <<>>
          THEN /\ LogsHead(token, decision)
               /\ UnreviewedQueue(token)' =
                      SelectSeq(UnreviewedQueue(token),
                                LAMBDA item : item # Head(UnreviewedQueue(token)))
          ELSE NoOp(token)]_vars

\* t2 decided on item 3, which two runs had assigned to it
C16_Witness ==
    /\ dist_status = "recorded"
    /\ Assignments("t2") = <<3, 3>>
    /\ decision_log = <<[item |-> 3, reviewer |-> "Bob", decision |-> "reject"]>>
    /\ UnreviewedQueue("t2") = <<>>

====
